---- MODULE Spec2Model ----
(***************************************************************************)
(* The Item REST API of the inventory application: the express-validator   *)
(* chain validateItem, the Mongoose Item schema and the routes of          *)
(* apps/api/router.js, over a store of Item documents.                     *)
(***************************************************************************)
EXTENDS Integers, Sequences, FiniteSets, TLC

(***************************************************************************)
(* Bounds of the model.                                                    *)
(***************************************************************************)
\* number of requests the server handles
MaxRequests == 3
\* last value of the clock
MaxTime == 1
\* the number of requests the server handles at once
MaxFlight == 2
\* the number of calls the home page makes
MaxCalls == 5
\* the number of calls the home page makes while its edit form is used
MaxFormCalls == 4
\* the number of items created while the web client runs
MaxItems == 2

(***************************************************************************)
(* JSON values of a request body.  A string is a sequence of one-character *)
(* strings; a key that the body does not carry is Undefined.               *)
(***************************************************************************)
Undefined == [type |-> "undefined", str |-> <<>>, num |-> 0]
Str(s) == [type |-> "string", str |-> s, num |-> 0]
Num(n) == [type |-> "number", str |-> <<>>, num |-> n]

Rep(c, n) == [i \in 1..n |-> c]

Digits == <<"0", "1", "2", "3", "4", "5", "6", "7", "8", "9">>

RECURSIVE NatToStr(_)
NatToStr(n) ==
    IF n < 10 THEN <<Digits[n + 1]>>
    ELSE NatToStr(n \div 10) \o <<Digits[(n % 10) + 1]>>

\* String(n) of JavaScript, for an integer n
IntToStr(n) == IF n < 0 THEN <<"-">> \o NatToStr(0 - n) ELSE NatToStr(n)

\* express-validator's toString(value): '' for undefined, String(value) otherwise
toString(v) ==
    CASE v.type = "undefined" -> <<>>
      [] v.type = "string" -> v.str
      [] v.type = "number" -> IntToStr(v.num)

DigitValue(c) == CHOOSE d \in 0..9 : Digits[d + 1] = c

IsDigit(c) == \E d \in 1..10 : Digits[d] = c

RECURSIVE ParseNat(_)
ParseNat(s) ==
    IF s = <<>> THEN 0
    ELSE 10 * ParseNat(SubSeq(s, 1, Len(s) - 1)) + DigitValue(s[Len(s)])

HasSign(s) == Len(s) > 0 /\ s[1] \in {"-", "+"}

Unsigned(s) == IF HasSign(s) THEN SubSeq(s, 2, Len(s)) ELSE s

\* validator.js: /^(?:[-+]?(?:0|[1-9][0-9]*))$/
IsIntString(s) ==
    LET u == Unsigned(s) IN
    /\ Len(u) > 0
    /\ \A i \in 1..Len(u) : IsDigit(u[i])
    /\ (Len(u) > 1 => u[1] # "0")

\* parseInt(str, 10) of a string that IsIntString accepts
ParseInt(s) ==
    IF HasSign(s) /\ s[1] = "-" THEN 0 - ParseNat(Unsigned(s)) ELSE ParseNat(Unsigned(s))

Whitespace == {" ", "\t", "\n"}

RECURSIVE ltrim(_)
ltrim(s) ==
    IF s # <<>> /\ s[1] \in Whitespace THEN ltrim(Tail(s)) ELSE s

RECURSIVE rtrim(_)
rtrim(s) ==
    IF s # <<>> /\ s[Len(s)] \in Whitespace THEN rtrim(SubSeq(s, 1, Len(s) - 1)) ELSE s

\* validator.js trim(str): surrounding whitespace removed
trim(s) == rtrim(ltrim(s))

\* validator.js escape(str), one character (the double quote, the backslash and the
\* backquote, which it replaces likewise, are not characters of the modelled bodies)
EscapeChar(c) ==
    CASE c = "&" -> <<"&", "a", "m", "p", ";">>
      [] c = "<" -> <<"&", "l", "t", ";">>
      [] c = ">" -> <<"&", "g", "t", ";">>
      [] c = "'" -> <<"&", "#", "x", "2", "7", ";">>
      [] c = "/" -> <<"&", "#", "x", "2", "F", ";">>
      [] OTHER -> <<c>>

RECURSIVE escape(_)
escape(s) ==
    IF s = <<>> THEN <<>> ELSE EscapeChar(s[1]) \o escape(Tail(s))

(***************************************************************************)
(* validateItem: the express-validator chains of the router.  Validators   *)
(* record an error and let the chain go on; sanitizers rewrite the field   *)
(* in req.body.                                                            *)
(***************************************************************************)
\* .exists() in place of .notEmpty(): an empty string passes
notEmptyExists(v) == v.type # "undefined"

\* .notEmpty(): the value as a string is not ''
notEmpty(v) == toString(v) # <<>>

\* .isInt() without its min option
isIntNoMin(v, min) == IsIntString(toString(v))

\* .isInt({ min }): the value as a string is an integer literal, at least min
isInt(v, min) ==
    /\ IsIntString(toString(v))
    /\ ParseInt(toString(v)) >= min

\* .isString()
isString(v) == v.type = "string"

\* .trim().escape() on a field the chain runs on
sanitize(v) == Str(escape(trim(toString(v))))

ValidationError(path, msg) == [path |-> path, msg |-> msg]

\* body('name').notEmpty().withMessage('Name is required')
nameErrors(body) ==
    IF notEmpty(body.name) THEN <<>>
    ELSE <<ValidationError("name", "Name is required")>>

\* a quantity chain that only asks for a JSON number, of either sign
quantityErrorsNumberOnly(body) ==
    IF body.quantity.type = "number" THEN <<>>
    ELSE <<ValidationError("quantity", "Quantity must be a non-negative integer")>>

\* body('quantity').isInt({ min: 0 }).withMessage(...)
quantityErrors(body) ==
    IF isInt(body.quantity, 0) THEN <<>>
    ELSE <<ValidationError("quantity", "Quantity must be a non-negative integer")>>

\* body(path).optional().isString(): an undefined field is skipped
optionalErrors(body, path) ==
    IF body[path] = Undefined \/ isString(body[path]) THEN <<>>
    ELSE <<ValidationError(path, "Invalid value")>>

\* body(path).optional()....trim().escape()
optionalSanitize(v) == IF v = Undefined THEN Undefined ELSE sanitize(v)

\* validationResult(req).array() and req.body as the chains leave it
validateItem(body) ==
    [errors |-> nameErrors(body) \o quantityErrors(body)
                    \o optionalErrors(body, "location")
                    \o optionalErrors(body, "description"),
     body |-> [body EXCEPT
                  !.name = sanitize(body.name),
                  !.location = optionalSanitize(body.location),
                  !.description = optionalSanitize(body.description)]]

(***************************************************************************)
(* The Item model: itemSchema and the Mongoose operations the router uses. *)
(***************************************************************************)
\* name: { maxLength: 100 }
MaxNameLength == 100

\* quantity: { min: 0 }
MinQuantity == 0

\* cast to the schema type String
castString(v) == IF v = Undefined THEN Undefined ELSE Str(toString(v))

\* cast to the schema type Number (of a number or an integer literal)
castNumber(v) ==
    CASE v.type = "number" -> v
      [] v.type = "string" -> Num(ParseInt(v.str))
      [] OTHER -> Undefined

\* the paths of itemSchema, next to _id and the timestamps
SchemaPaths == {"name", "quantity", "location", "description"}

\* strict: true: a value for a path the schema does not have is dropped
strict(path, v) == IF path \in SchemaPaths THEN v ELSE Undefined

\* new Item(fields) with quantity left at a schema default of 0
NewItemDefaultQuantity(fields, id, t) ==
    [id |-> id,
     name |-> IF fields.name = Undefined THEN Undefined ELSE Str(toString(fields.name)),
     quantity |-> Num(0),
     location |-> Undefined,
     sku |-> Undefined,
     description |->
        IF fields.description = Undefined THEN Undefined
        ELSE Str(toString(fields.description)),
     createdAt |-> t,
     updatedAt |-> t]

\* new Item(fields): the fields cast to the schema, _id assigned;
\* timestamps: true sets createdAt and updatedAt on save
NewItem(fields, id, t) ==
    [id |-> id,
     name |-> castString(fields.name),
     quantity |-> castNumber(fields.quantity),
     location |-> castString(fields.location),
     description |-> castString(fields.description),
     sku |-> strict("sku", castString(fields.sku)),
     createdAt |-> t,
     updatedAt |-> t]

\* the schema validators run by save(): required, maxLength, min
SchemaValid(doc) ==
    /\ doc.name.type = "string"
    /\ doc.name.str # <<>>
    /\ Len(doc.name.str) <= MaxNameLength
    /\ doc.quantity.type = "number"
    /\ doc.quantity.num >= MinQuantity

\* mongoose.isValidObjectId: the ids of the model are integers, the
\* well-formed ones are the naturals
WellFormed(id) == id >= 0

\* a string that is no ObjectId
BadId == 0 - 1

\* an ObjectId made by the client, that no document has
FakeId == 0

\* the store without a document
Remove(s, id) == [i \in DOMAIN s \ {id} |-> s[i]]

\* the update replaces the document ({ overwrite: true }): a path the update
\* does not carry is lost
applyUpdateOverwrite(doc, update, t) ==
    [doc EXCEPT
        !.name = IF update.name = Undefined THEN Undefined ELSE Str(toString(update.name)),
        !.quantity = update.quantity,
        !.location = update.location,
        !.description = update.description,
        !.updatedAt = t]

\* an update that sets the name only of a document without name
applyUpdateFirstNameWins(doc, update, t) ==
    [doc EXCEPT
        !.name = IF doc.name # Undefined THEN @ ELSE Str(toString(update.name)),
        !.quantity = IF update.quantity = Undefined THEN @ ELSE update.quantity,
        !.location = IF update.location = Undefined THEN @ ELSE Str(toString(update.location)),
        !.description =
            IF update.description = Undefined THEN @ ELSE Str(toString(update.description)),
        !.updatedAt = t]

\* an update whose updatedAt is taken from the body when it carries one
applyUpdateBodyUpdatedAt(doc, update, t) ==
    [doc EXCEPT
        !.name = IF update.name = Undefined THEN @ ELSE Str(toString(update.name)),
        !.quantity = IF update.quantity = Undefined THEN @ ELSE update.quantity,
        !.location = IF update.location = Undefined THEN @ ELSE Str(toString(update.location)),
        !.description =
            IF update.description = Undefined THEN @ ELSE Str(toString(update.description)),
        !.updatedAt = IF update.updatedAt = Undefined THEN t ELSE update.updatedAt.num]

\* an update whose createdAt is taken from the body when it carries one
applyUpdateBodyCreatedAt(doc, update, t) ==
    [doc EXCEPT
        !.name = IF update.name = Undefined THEN @ ELSE Str(toString(update.name)),
        !.quantity = IF update.quantity = Undefined THEN @ ELSE update.quantity,
        !.location = IF update.location = Undefined THEN @ ELSE Str(toString(update.location)),
        !.description =
            IF update.description = Undefined THEN @ ELSE Str(toString(update.description)),
        !.createdAt = IF update.createdAt = Undefined THEN @ ELSE update.createdAt.num,
        !.updatedAt = t]

\* $set of the update's paths that the schema has (strict).  With
\* timestamps: true Mongoose takes createdAt and updatedAt out of the update
\* and sets updatedAt to the current time.
applyUpdate(doc, update, t) ==
    [doc EXCEPT
        !.name = IF update.name = Undefined THEN @ ELSE castString(update.name),
        !.quantity = IF update.quantity = Undefined THEN @ ELSE castNumber(update.quantity),
        !.location = IF update.location = Undefined THEN @ ELSE castString(update.location),
        !.description =
            IF update.description = Undefined THEN @ ELSE castString(update.description),
        !.sku = IF strict("sku", update.sku) = Undefined THEN @ ELSE castString(update.sku),
        !.updatedAt = t]

\* the update carries an _id that is not the document's: MongoDB rejects it
\* (the immutable field _id would be modified)
ModifiesId(doc, update) == update._id # Undefined /\ update._id # Num(doc.id)

\* findByIdAndUpdate with { upsert: true }: a missing id is inserted
findByIdAndUpdateUpsert(s, id, update, t) ==
    IF id \in DOMAIN s THEN [s EXCEPT ![id] = applyUpdate(s[id], update, t)]
    ELSE s @@ (id :> NewItem(update, id, t))

\* Item.updateMany({}, update): every document is updated once one has the id
updateMany(s, id, update, t) ==
    IF id \in DOMAIN s THEN [i \in DOMAIN s |-> applyUpdate(s[i], update, t)] ELSE s

\* Item.findByIdAndUpdate(id, update, { new: true }): the store afterwards
findByIdAndUpdate(s, id, update, t) ==
    IF id \in DOMAIN s THEN [s EXCEPT ![id] = applyUpdate(s[id], update, t)] ELSE s

\* a findByIdAndDelete that finds the document and leaves it in place
findByIdAndDeleteKeeps(s, id) == s

\* Item.findByIdAndDelete(id): the store afterwards
findByIdAndDelete(s, id) ==
    IF id \in DOMAIN s THEN Remove(s, id) ELSE s

\* the document of an id, or null: a sequence of at most one document
Found(s, id) == IF id \in DOMAIN s THEN <<s[id]>> ELSE <<>>

\* sort({ createdAt: 1 }): oldest first
SortedListsAscending(s) ==
    {l \in [1..Cardinality(DOMAIN s) -> DOMAIN s] :
        /\ \A i, j \in DOMAIN l : i # j => l[i] # l[j]
        /\ \A i, j \in DOMAIN l : i < j => s[l[i]].createdAt <= s[l[j]].createdAt}

\* Item.find().sort({ createdAt: -1 }): every order of the documents that is
\* descending in createdAt (the order of equal createdAt is the store's)
SortedLists(s) ==
    {l \in [1..Cardinality(DOMAIN s) -> DOMAIN s] :
        /\ \A i, j \in DOMAIN l : i # j => l[i] # l[j]
        /\ \A i, j \in DOMAIN l : i < j => s[l[i]].createdAt >= s[l[j]].createdAt}

ItemsOf(s, l) == [i \in DOMAIN l |-> s[l[i]]]

(***************************************************************************)
(* Requests and responses.                                                 *)
(***************************************************************************)
Body(n, q, l, d) ==
    [name |-> n, quantity |-> q, location |-> l, description |-> d,
     sku |-> Undefined, _id |-> Undefined, createdAt |-> Undefined, updatedAt |-> Undefined]

NoBody == Body(Undefined, Undefined, Undefined, Undefined)

\* the request bodies of the model
Bodies ==
    {Body(Str(<<"a">>), Num(1), Undefined, Undefined),
     Body(Str(<<"b">>), Num(3), Undefined, Str(<<"e">>)),
     Body(Str(<<" ", "<", "b", " ">>), Num(0), Str(<<" ", "x", "&">>), Str(<<"d", " ">>)),
     Body(Undefined, Num(5), Undefined, Undefined),
     Body(Str(<<>>), Num(1), Undefined, Undefined),
     Body(Str(<<"a">>), Num(0 - 2), Undefined, Undefined),
     Body(Undefined, Num(0 - 2), Undefined, Undefined),
     Body(Str(<<"X">>), Undefined, Undefined, Undefined),
     Body(Undefined, Undefined, Str(<<"x">>), Undefined),
     Body(Str(<<" ">>), Num(1), Undefined, Undefined),
     Body(Str(<<"a">>), Num(1), Num(5), Undefined),
     Body(Str(Rep("<", 26)), Num(1), Undefined, Undefined),
     Body(Str(<<"a">>), Str(<<"1", ".", "5">>), Undefined, Undefined),
     [Body(Str(<<"a">>), Num(1), Undefined, Undefined) EXCEPT !.sku = Str(<<"S">>)],
     [Body(Str(<<"a">>), Num(1), Undefined, Undefined) EXCEPT
        !._id = Num(1), !.createdAt = Num(9), !.updatedAt = Num(0 - 9)]}

\* the ids a request can name: the ids assigned so far, an ObjectId of no
\* document, and a string that is no ObjectId
RequestIds(next) == (1..(next - 1)) \cup {FakeId, BadId}

Request(method, id, body) == [method |-> method, id |-> id, body |-> body]

\* res.status(status).json(...): a message, a validation report, a document
\* (a sequence of at most one) or a list of documents
Response(status, message, errors, item, items) ==
    [status |-> status, message |-> message, errors |-> errors, item |-> item,
     items |-> items]

NoResponse == Response(0, "", <<>>, <<>>, <<>>)

\* validateItem's last middleware: 400 with the errors
ValidationFailed(errors) == Response(400, "Validation failed", errors, <<>>, <<>>)

(***************************************************************************)
(* State.                                                                  *)
(***************************************************************************)
VARIABLES
    store,      \* the items collection: id -> document
    nextId,     \* the next _id the model assigns
    now,        \* the clock that stamps createdAt and updatedAt
    req,        \* the last request
    res,        \* the response to it
    dbCall,     \* the storage call of the last request: "none", "ok" or "error"
    pre,        \* the collection when the last request arrived
    served,     \* the number of requests handled so far
    flight,     \* the requests being handled at once: slot -> its progress
    page,       \* the web client: the home page and its edit form
    wire        \* the calls of the web client, in the order it made them

vars == <<store, nextId, now, req, res, dbCall, pre, served, flight, page, wire>>

EmptyStore == [i \in {} |-> NoBody]

\* the requests the server handles at once
Slots == 1..MaxFlight

\* a slot without request
Idle ==
    [pc |-> "idle", method |-> "NONE", id |-> FakeId, body |-> NoBody, t |-> 0,
     doc |-> <<>>, res |-> NoResponse, dbCall |-> "none", responses |-> 0,
     handlerRan |-> FALSE,
     existed |-> FALSE, at |-> 0, seen |-> <<>>, wrote |-> <<>>]

\* HomePage.vue after setup(), before onMounted: the refs of the page, and
\* no edit form (v-if="showEditModal")
NewPage ==
    [mounted |-> FALSE, items |-> <<>>, shown |-> 0,
     showDeleteConfirm |-> FALSE, itemToDelete |-> <<>>,
     showEditModal |-> FALSE, selectedItem |-> <<>>,
     form |-> <<>>, loading |-> FALSE]

Init ==
    /\ flight = [k \in Slots |-> Idle]
    /\ page = NewPage
    /\ wire = <<>>
    /\ store = EmptyStore
    /\ nextId = 1
    /\ now = 0
    /\ req = [method |-> "NONE", id |-> FakeId, body |-> NoBody]
    /\ res = NoResponse
    /\ dbCall = "none"
    /\ pre = EmptyStore
    /\ served = 0

NoRequest == Request("NONE", FakeId, NoBody)

\* what a handler leaves: the response, the collection, the storage call
Outcome(r, s, db) == [res |-> r, store |-> s, dbCall |-> db]

(***************************************************************************)
(* The routes.                                                             *)
(***************************************************************************)
\* router.get('/')
GetHandler(s, l, dbOk) ==
    IF dbOk THEN Outcome(Response(200, "", <<>>, <<>>, ItemsOf(s, l)), s, "ok")
    ELSE Outcome(Response(500, "storage error", <<>>, <<>>, <<>>), s, "error")

\* a validateItem whose last middleware answers 400 without `return`: next()
\* runs the handler all the same
PostHandlerNoReturn(s, body, id, t, dbOk) ==
    LET v == validateItem(body)
        item == NewItem(Body(v.body.name, v.body.quantity, Undefined, v.body.description),
                        id, t)
        saved == IF quantityErrors(body) = <<>> /\ SchemaValid(item) /\ dbOk
                 THEN s @@ (id :> item)
                 ELSE s
    IN  IF v.errors # <<>>
        THEN [res |-> [status |-> 400, message |-> "Validation failed", errors |-> v.errors,
                       item |-> <<>>, items |-> <<>>],
              store |-> saved, dbCall |-> "none"]
        ELSE IF ~SchemaValid(item)
             THEN [res |-> [status |-> 400, message |-> "Item validation failed",
                            errors |-> <<>>, item |-> <<>>, items |-> <<>>],
                   store |-> s, dbCall |-> "none"]
        ELSE IF ~dbOk
             THEN [res |-> [status |-> 400, message |-> "storage error", errors |-> <<>>,
                            item |-> <<>>, items |-> <<>>],
                   store |-> s, dbCall |-> "error"]
        ELSE [res |-> [status |-> 201, message |-> "", errors |-> <<>>, item |-> <<item>>,
                       items |-> <<>>],
              store |-> saved, dbCall |-> "ok"]

\* router.post('/', validateItem, ...)
PostHandler(s, body, id, t, dbOk) ==
    LET v == validateItem(body)
        item == NewItem(Body(v.body.name, v.body.quantity, Undefined, v.body.description),
                        id, t)
    IN  IF v.errors # <<>> THEN Outcome(ValidationFailed(v.errors), s, "none")
        ELSE IF ~SchemaValid(item)
             THEN Outcome(Response(400, "Item validation failed", <<>>, <<>>, <<>>), s, "none")
        ELSE IF ~dbOk
             THEN Outcome(Response(400, "storage error", <<>>, <<>>, <<>>), s, "error")
        ELSE Outcome(Response(201, "", <<>>, <<item>>, <<>>), s @@ (id :> item), "ok")

\* router.put('/:id', validateItem, ...)
PutHandler(s, id, body, t, dbOk) ==
    LET v == validateItem(body)
        after == findByIdAndUpdate(s, id, v.body, t)
        updated == Found(after, id)
    IN  IF v.errors # <<>> THEN Outcome(ValidationFailed(v.errors), s, "none")
        ELSE IF ~WellFormed(id)
             THEN Outcome(Response(400, "Cast to ObjectId failed", <<>>, <<>>, <<>>), s, "none")
        ELSE IF ~dbOk
             THEN Outcome(Response(400, "storage error", <<>>, <<>>, <<>>), s, "error")
        ELSE IF id \in DOMAIN s /\ ModifiesId(s[id], v.body)
             THEN Outcome(Response(400, "immutable field _id", <<>>, <<>>, <<>>), s, "error")
        ELSE IF updated = <<>>
             THEN Outcome(Response(404, "Item not found", <<>>, <<>>, <<>>), after, "ok")
        ELSE Outcome(Response(200, "", <<>>, updated, <<>>), after, "ok")

\* router.delete without its `if (!deleted)` check
DeleteHandlerNoCheck(s, id, dbOk) ==
    IF ~WellFormed(id)
    THEN [res |-> [status |-> 500, message |-> "Cast to ObjectId failed", errors |-> <<>>,
                   item |-> <<>>, items |-> <<>>],
          store |-> s, dbCall |-> "none"]
    ELSE IF ~dbOk
         THEN [res |-> [status |-> 500, message |-> "storage error", errors |-> <<>>,
                        item |-> <<>>, items |-> <<>>],
               store |-> s, dbCall |-> "error"]
    ELSE [res |-> [status |-> 200, message |-> "Item deleted", errors |-> <<>>,
                   item |-> <<>>, items |-> <<>>],
          store |-> IF id \in DOMAIN s THEN Remove(s, id) ELSE s, dbCall |-> "ok"]

\* router.delete('/:id', ...)
DeleteHandler(s, id, dbOk) ==
    LET deleted == Found(s, id)
        after == findByIdAndDelete(s, id)
    IN  IF ~WellFormed(id)
        THEN Outcome(Response(500, "Cast to ObjectId failed", <<>>, <<>>, <<>>), s, "none")
        ELSE IF ~dbOk
             THEN Outcome(Response(500, "storage error", <<>>, <<>>, <<>>), s, "error")
        ELSE IF deleted = <<>>
             THEN Outcome(Response(404, "Item not found", <<>>, <<>>, <<>>), after, "ok")
        ELSE Outcome(Response(200, "Item deleted", <<>>, <<>>, <<>>), after, "ok")

\* GET /:id has no route in the router: Express answers 404 itself
NoRoute(s) == Outcome(Response(404, "Cannot GET", <<>>, <<>>, <<>>), s, "none")

\* one request at a time is handled to its response
Handle(request, out) ==
    /\ req = NoRequest
    /\ served < MaxRequests
    /\ served' = served + 1
    /\ req' = request
    /\ res' = out.res
    /\ store' = out.store
    /\ dbCall' = out.dbCall
    /\ pre' = store
    /\ UNCHANGED <<now, flight, page, wire>>

RouterGet ==
    \E dbOk \in BOOLEAN, l \in SortedLists(store) :
        /\ Handle(Request("GET", FakeId, NoBody), GetHandler(store, l, dbOk))
        /\ UNCHANGED nextId

RouterGetById ==
    \E id \in RequestIds(nextId) :
        /\ Handle(Request("GETID", id, NoBody), NoRoute(store))
        /\ UNCHANGED nextId

RouterPost ==
    \E body \in Bodies, dbOk \in BOOLEAN :
        /\ Handle(Request("POST", FakeId, body), PostHandler(store, body, nextId, now, dbOk))
        /\ nextId' = IF nextId \in DOMAIN store' THEN nextId + 1 ELSE nextId

RouterPut ==
    \E id \in RequestIds(nextId), body \in Bodies, dbOk \in BOOLEAN :
        /\ Handle(Request("PUT", id, body), PutHandler(store, id, body, now, dbOk))
        /\ UNCHANGED nextId

RouterDelete ==
    \E id \in RequestIds(nextId), dbOk \in BOOLEAN :
        /\ Handle(Request("DELETE", id, NoBody), DeleteHandler(store, id, dbOk))
        /\ UNCHANGED nextId

\* the response is sent and the request is over: the router keeps nothing
\* of it
Finish ==
    /\ req # NoRequest
    /\ req' = NoRequest
    /\ res' = NoResponse
    /\ dbCall' = "none"
    /\ pre' = store
    /\ UNCHANGED <<store, nextId, now, served, flight, page, wire>>

\* time passes between requests
Tick ==
    /\ req = NoRequest
    /\ now < MaxTime
    /\ now' = now + 1
    /\ UNCHANGED <<store, nextId, req, res, dbCall, pre, served, flight, page, wire>>

Next ==
    \/ RouterGet
    \/ RouterGetById
    \/ RouterPost
    \/ RouterPut
    \/ RouterDelete
    \/ Finish
    \/ Tick

Spec == Init /\ [][Next]_vars

(***************************************************************************)
(* The server handling several requests at once.  Node runs a handler up   *)
(* to its await; the storage call is one atomic operation of the store;    *)
(* the rest of the handler runs when the call has settled.                 *)
(* The clock stands still while these requests are handled: what is at    *)
(* stake is the order of the storage calls.                                *)
(***************************************************************************)
\* the request bodies of the requests handled at once
FlightBodies ==
    {Body(Str(<<"a">>), Num(1), Undefined, Undefined),
     Body(Str(<<"b">>), Num(3), Undefined, Str(<<"e">>)),
     Body(Str(<<"a">>), Num(0 - 2), Undefined, Undefined)}

\* the routes with validateItem in front of the handler
Validated == {"POST", "PUT"}

\* a validateItem whose last middleware answers 400 and calls next() all the
\* same
MiddlewareNoReturn(f) ==
    LET v == validateItem(f.body)
    IN  IF v.errors # <<>>
        THEN [f EXCEPT !.pc = "handler",
                       !.res = [status |-> 400, message |-> "Validation failed",
                                errors |-> v.errors, item |-> <<>>, items |-> <<>>],
                       !.responses = @ + 1]
        ELSE [f EXCEPT !.pc = "handler"]

\* validateItem's last middleware: answer 400 and stop, or next()
Middleware(f) ==
    LET v == validateItem(f.body)
    IN  IF v.errors # <<>>
        THEN [f EXCEPT !.pc = "done", !.res = ValidationFailed(v.errors),
                       !.responses = @ + 1]
        ELSE [f EXCEPT !.pc = "handler"]

\* const item = new Item({ name, quantity, description }) of the POST
\* handler, from req.body as the chains left it
Construct(f, id, t) ==
    IF f.method = "POST"
    THEN <<NewItem(Body(sanitize(f.body.name), f.body.quantity, Undefined,
                        optionalSanitize(f.body.description)), id, t)>>
    ELSE <<>>

\* await item.save() and the rest of the POST handler
Save(s, item, dbOk) ==
    IF ~SchemaValid(item)
    THEN Outcome(Response(400, "Item validation failed", <<>>, <<>>, <<>>), s, "none")
    ELSE IF ~dbOk
         THEN Outcome(Response(400, "storage error", <<>>, <<>>, <<>>), s, "error")
    ELSE Outcome(Response(201, "", <<>>, <<item>>, <<>>), s @@ (item.id :> item), "ok")

\* the storage call of a handler, on the store as it is when the call runs
StorageCall(f, s, l, dbOk) ==
    CASE f.method = "GET" -> GetHandler(s, l, dbOk)
      [] f.method = "POST" -> Save(s, f.doc[1], dbOk)
      [] f.method = "PUT" -> PutHandler(s, f.id, f.body, f.t, dbOk)
      [] f.method = "DELETE" -> DeleteHandler(s, f.id, dbOk)

\* the position of the last storage call among those of the slots
LastCall == CHOOSE n \in 0..(MaxRequests + MaxFlight) :
                /\ \E k \in Slots : flight[k].at = n \/ n = 0
                /\ \A k \in Slots : flight[k].at <= n

\* a request arrives and takes the first free slot
Arrive(k) ==
    /\ flight[k].pc = "idle"
    /\ \A j \in 1..(k - 1) : flight[j].pc # "idle"
    /\ served < MaxRequests
    /\ served' = served + 1
    /\ \E method \in {"GET", "POST", "PUT", "DELETE"}, id \in RequestIds(nextId),
          body \in FlightBodies :
          /\ method \in {"GET", "POST"} => id = FakeId
          /\ method \in {"GET", "DELETE"} => body = CHOOSE b \in FlightBodies : TRUE
          /\ flight' = [flight EXCEPT ![k] =
                            [Idle EXCEPT
                                !.pc = IF method \in Validated THEN "middleware" ELSE "handler",
                                !.method = method,
                                !.id = id,
                                !.existed = id \in DOMAIN store,
                                !.body = IF method \in Validated THEN body ELSE NoBody]]
    /\ UNCHANGED <<store, nextId, now, req, res, dbCall, pre, page, wire>>

\* the validation chains and their last middleware run
Validate(k) ==
    /\ flight[k].pc = "middleware"
    /\ flight' = [flight EXCEPT ![k] = Middleware(flight[k])]
    /\ UNCHANGED <<store, nextId, now, req, res, dbCall, pre, served, page, wire>>

\* the handler runs up to its await: new Item(...) takes its _id, and the
\* timestamps of the call are those of this moment
Enter(k) ==
    /\ flight[k].pc = "handler"
    /\ flight' = [flight EXCEPT ![k].pc = "awaiting",
                                ![k].handlerRan = TRUE,
                                ![k].t = now,
                                ![k].id = IF flight[k].method = "POST" THEN nextId ELSE @,
                                ![k].doc = Construct(flight[k], nextId, now)]
    /\ nextId' = IF flight[k].method = "POST" THEN nextId + 1 ELSE nextId
    /\ UNCHANGED <<store, now, req, res, dbCall, pre, served, page, wire>>

\* the storage call settles: it has run on the store, or it has failed
Settle(k) ==
    /\ flight[k].pc = "awaiting"
    /\ \E dbOk \in BOOLEAN, l \in SortedLists(store) :
          \E out \in {StorageCall(flight[k], store, l, dbOk)} :
              /\ store' = out.store
              /\ flight' = [flight EXCEPT ![k].pc = "settled",
                                          ![k].res = out.res,
                                          ![k].dbCall = out.dbCall,
                                          ![k].at = LastCall + 1,
                                          ![k].seen = Found(store, flight[k].id),
                                          ![k].wrote = Found(out.store, flight[k].id)]
    /\ UNCHANGED <<nextId, now, req, res, dbCall, pre, served, page, wire>>

\* the rest of the handler: res.json(...)
Respond(k) ==
    /\ flight[k].pc = "settled"
    /\ flight' = [flight EXCEPT ![k].pc = "done", ![k].responses = @ + 1]
    /\ UNCHANGED <<store, nextId, now, req, res, dbCall, pre, served, page, wire>>

\* the request is over
Release(k) ==
    /\ flight[k].pc = "done"
    /\ flight' = [flight EXCEPT ![k] = Idle]
    /\ UNCHANGED <<store, nextId, now, req, res, dbCall, pre, served, page, wire>>

ServerNext ==
    \/ \E k \in Slots : Arrive(k)
    \/ \E k \in Slots : Validate(k)
    \/ \E k \in Slots : Enter(k)
    \/ \E k \in Slots : Settle(k)
    \/ \E k \in Slots : Respond(k)
    \/ \E k \in Slots : Release(k)

ServerSpec == Init /\ [][ServerNext]_vars

\* Node runs every callback that is ready, and a storage call settles
ServerFair ==
    \A k \in Slots :
        /\ WF_vars(Validate(k))
        /\ WF_vars(Enter(k))
        /\ WF_vars(Settle(k))
        /\ WF_vars(Respond(k))

ServerLive == ServerSpec /\ ServerFair

(***************************************************************************)
(* The web client: HomePage.vue with its delete confirmation and its edit  *)
(* form (EditItemModal.vue), calling the server over HTTP.  A call is      *)
(* sent, served by the router in one step, and its promise settles later,  *)
(* in any order with the other calls; a call can also fail on the way.     *)
(* The clock stands still.                                                 *)
(***************************************************************************)
\* the bodies of the items other clients create
WebBodies == {Body(Str(<<"a">>), Num(1), Undefined, Undefined)}

\* String(value) of JavaScript
String(v) ==
    IF v = Undefined THEN <<"u", "n", "d", "e", "f", "i", "n", "e", "d">> ELSE toString(v)

\* form: { ...this.item }
FormOf(item) ==
    [name |-> item.name, quantity |-> item.quantity, location |-> item.location,
     description |-> item.description, sku |-> item.sku, _id |-> Num(item.id),
     createdAt |-> Num(item.createdAt), updatedAt |-> Num(item.updatedAt)]

\* this.form.name = String(this.form.name).trim(), and likewise description
\* and location
TrimForm(form) ==
    [form EXCEPT !.name = Str(trim(String(@))),
                 !.description = Str(trim(String(@))),
                 !.location = Str(trim(String(@)))]

\* a call of the client, as it is sent; mounted: the form that made the
\* call is still on the page
Call(kind, id, body, item) ==
    [kind |-> kind, id |-> id, body |-> body, item |-> item, mounted |-> kind = "PUT",
     state |-> "sent", res |-> NoResponse, before |-> <<>>, after |-> <<>>,
     loading |-> kind = "PUT", emitted |-> <<>>, open |-> <<>>]

\* api.get('/items')
FetchItems == Call("GET", FakeId, NoBody, <<>>)

\* the calls whose completion calls loadItems
Spawning(w) ==
    Cardinality({i \in DOMAIN w : w[i].kind \in {"PUT", "DELETE"} /\ w[i].state # "done"})

\* n more calls fit the bound
Room(w, n, max) == Len(w) + Spawning(w) + n <= max

\* the promise of a call is settled: fulfilled with the response, or rejected
Settled(c) == c.state \in {"served", "failed"}

\* axios fulfils on a 2xx status and rejects otherwise
Fulfilled(c) == c.state = "served" /\ c.res.status \in 200..299

\* the router handling a call of the client
WebCall(c, s, l, t, dbOk) ==
    CASE c.kind = "GET" -> GetHandler(s, l, dbOk)
      [] c.kind = "PUT" -> PutHandler(s, c.id, c.body, t, dbOk)
      [] c.kind = "DELETE" -> DeleteHandler(s, c.id, dbOk)

\* a deleteItem that closes the dialog and keeps itemToDelete
AfterDeleteKeepsItem(p) == [p EXCEPT !.showDeleteConfirm = FALSE]

\* deleteItem after its await: showDeleteConfirm = false; itemToDelete = null
AfterDelete(p) == [p EXCEPT !.showDeleteConfirm = FALSE, !.itemToDelete = <<>>]

\* an updateItem that resets loading at the end of its try block
AfterUpdateNoFinally(c, ok, open) ==
    [c EXCEPT !.state = "done",
              !.emitted = IF ok THEN <<"updated", "close">> ELSE <<>>,
              !.loading = ~ok,
              !.open = open]

\* updateItem after its await: the emits of the try block, the catch block,
\* and finally loading = false
AfterUpdate(c, ok, open) ==
    [c EXCEPT !.state = "done",
              !.emitted = IF ok THEN <<"updated", "close">> ELSE <<>>,
              !.loading = FALSE,
              !.open = open]

\* @close="showEditModal = false": the form is unmounted
Closed(p) == [p EXCEPT !.showEditModal = FALSE, !.form = <<>>, !.loading = FALSE]

\* the calls, once the form is unmounted
Unmounted(w) == [i \in DOMAIN w |-> [w[i] EXCEPT !.mounted = FALSE]]

\* onMounted(loadItems)
OnMounted ==
    /\ ~page.mounted
    /\ page' = [page EXCEPT !.mounted = TRUE]
    /\ wire' = Append(wire, FetchItems)
    /\ UNCHANGED <<store, nextId, now, req, res, dbCall, pre, served, flight>>

\* another client creates an item, before the page is opened
Create ==
    /\ ~page.mounted
    /\ nextId <= MaxItems
    /\ \E body \in WebBodies :
          store' = PostHandler(store, body, nextId, now, TRUE).store
    /\ nextId' = nextId + 1
    /\ UNCHANGED <<now, req, res, dbCall, pre, served, flight, page, wire>>

\* the router handles a call
Serve(i) ==
    /\ i \in DOMAIN wire
    /\ wire[i].state = "sent"
    /\ \E dbOk \in BOOLEAN, l \in SortedLists(store) :
          \E out \in {WebCall(wire[i], store, l, now, dbOk)} :
              /\ store' = out.store
              /\ wire' = [wire EXCEPT ![i].state = "served",
                                      ![i].res = out.res,
                                      ![i].before = Found(store, wire[i].id),
                                      ![i].after = Found(out.store, wire[i].id)]
    /\ UNCHANGED <<nextId, now, req, res, dbCall, pre, served, flight, page>>

\* the request does not reach the server: the promise is rejected
Lose(i) ==
    /\ i \in DOMAIN wire
    /\ wire[i].state = "sent"
    /\ wire' = [wire EXCEPT ![i].state = "failed"]
    /\ UNCHANGED <<store, nextId, now, req, res, dbCall, pre, served, flight, page>>

\* loadItems after its await
LoadItemsDone(i) ==
    /\ i \in DOMAIN wire
    /\ wire[i].kind = "GET"
    /\ Settled(wire[i])
    /\ page' = IF Fulfilled(wire[i])
               THEN [page EXCEPT !.items = wire[i].res.items, !.shown = i]
               ELSE page
    /\ wire' = [wire EXCEPT ![i].state = "done"]
    /\ UNCHANGED <<store, nextId, now, req, res, dbCall, pre, served, flight>>

\* deleteItem after its await: fetch fulfils with every response, and then
\* loadItems is called
DeleteDone(i) ==
    /\ i \in DOMAIN wire
    /\ wire[i].kind = "DELETE"
    /\ Settled(wire[i])
    /\ IF wire[i].state = "served"
       THEN /\ page' = AfterDelete(page)
            /\ wire' = Append([wire EXCEPT ![i].state = "done"], FetchItems)
       ELSE /\ page' = page
            /\ wire' = [wire EXCEPT ![i].state = "done"]
    /\ UNCHANGED <<store, nextId, now, req, res, dbCall, pre, served, flight>>

\* updateItem after its await.  The page hears the events of a mounted form:
\* @updated="loadItems", @close="showEditModal = false"; whether it hears
\* those of a form it has unmounted meanwhile is left open.
UpdateDone(i) ==
    /\ i \in DOMAIN wire
    /\ wire[i].kind = "PUT"
    /\ Settled(wire[i])
    /\ \E heard \in BOOLEAN :
          LET ok == Fulfilled(wire[i])
              hears == ok /\ heard
              p == IF hears THEN Closed(page)
                   ELSE IF wire[i].mounted THEN [page EXCEPT !.loading = FALSE]
                   ELSE page
              w == [wire EXCEPT ![i] =
                        AfterUpdate(wire[i], ok, <<page.showEditModal, p.showEditModal>>)]
          IN  /\ wire[i].mounted => heard
              /\ page' = p
              /\ wire' = IF hears THEN Append(Unmounted(w), FetchItems) ELSE w
    /\ UNCHANGED <<store, nextId, now, req, res, dbCall, pre, served, flight>>

\* confirmDelete(item): the Delete button of a row
ConfirmDelete(j) ==
    /\ j \in DOMAIN page.items
    /\ page' = [page EXCEPT !.itemToDelete = <<page.items[j]>>, !.showDeleteConfirm = TRUE]
    /\ UNCHANGED <<store, nextId, now, req, res, dbCall, pre, served, flight, wire>>

\* cancelDelete: the Cancel button of the dialog
CancelDelete ==
    /\ page.showDeleteConfirm
    /\ page' = [page EXCEPT !.itemToDelete = <<>>, !.showDeleteConfirm = FALSE]
    /\ UNCHANGED <<store, nextId, now, req, res, dbCall, pre, served, flight, wire>>

\* deleteItem up to its await: the Delete button of the dialog
DeleteItem ==
    /\ page.showDeleteConfirm
    /\ page.itemToDelete # <<>>
    /\ Room(wire, 2, MaxCalls)
    /\ wire' = Append(wire, Call("DELETE", page.itemToDelete[1].id, NoBody,
                                 page.itemToDelete))
    /\ UNCHANGED <<store, nextId, now, req, res, dbCall, pre, served, flight, page>>

\* openEditModal(item): the Edit button of a row.  An open form takes the
\* item through its watcher; a closed one is mounted anew.
OpenEditModal(j) ==
    /\ j \in DOMAIN page.items
    /\ page' = IF page.showEditModal
               THEN IF page.selectedItem = <<page.items[j]>> THEN page
                    ELSE [page EXCEPT !.selectedItem = <<page.items[j]>>,
                                      !.form = <<FormOf(page.items[j])>>]
               ELSE [page EXCEPT !.selectedItem = <<page.items[j]>>,
                                 !.showEditModal = TRUE,
                                 !.form = <<FormOf(page.items[j])>>,
                                 !.loading = FALSE]
    /\ page' # page
    /\ UNCHANGED <<store, nextId, now, req, res, dbCall, pre, served, flight, wire>>

\* updateItem up to its await: the Save button, enabled unless
\* loading || !form.name || form.quantity < 0
UpdateItem ==
    /\ page.showEditModal
    /\ ~page.loading
    /\ String(page.form[1].name) # <<>>
    /\ page.form[1].quantity.num >= 0
    /\ Room(wire, 2, MaxFormCalls)
    /\ page' = [page EXCEPT !.loading = TRUE, !.form = <<TrimForm(page.form[1])>>]
    /\ wire' = Append(wire, Call("PUT", page.form[1]._id.num, TrimForm(page.form[1]),
                                 page.selectedItem))
    /\ UNCHANGED <<store, nextId, now, req, res, dbCall, pre, served, flight>>

\* the Cancel button of the form: $emit('close')
CloseEdit ==
    /\ page.showEditModal
    /\ page' = Closed(page)
    /\ wire' = Unmounted(wire)
    /\ UNCHANGED <<store, nextId, now, req, res, dbCall, pre, served, flight>>

\* the home page, its list and its delete confirmation
HomeNext ==
    \/ OnMounted
    \/ Create
    \/ \E i \in 1..MaxCalls : Serve(i)
    \/ \E i \in 1..MaxCalls : Lose(i)
    \/ \E i \in 1..MaxCalls : LoadItemsDone(i)
    \/ \E i \in 1..MaxCalls : DeleteDone(i)
    \/ \E j \in 1..MaxItems : ConfirmDelete(j)
    \/ CancelDelete
    \/ DeleteItem

HomeSpec == Init /\ [][HomeNext]_vars

\* the home page, its list and its edit form
FormNext ==
    \/ OnMounted
    \/ Create
    \/ \E i \in 1..MaxFormCalls : Serve(i)
    \/ \E i \in 1..MaxFormCalls : Lose(i)
    \/ \E i \in 1..MaxFormCalls : LoadItemsDone(i)
    \/ \E i \in 1..MaxFormCalls : UpdateDone(i)
    \/ \E j \in 1..MaxItems : OpenEditModal(j)
    \/ UpdateItem
    \/ CloseEdit

FormSpec == Init /\ [][FormNext]_vars

\* the router answers a call that reached it, and a settled promise runs the
\* rest of its function
FormFair ==
    \A i \in 1..MaxFormCalls :
        /\ WF_vars(Serve(i))
        /\ WF_vars(UpdateDone(i))

FormLive == FormSpec /\ FormFair

(***************************************************************************)
(* Vocabulary of the properties.                                           *)
(***************************************************************************)
\* a name that is present, non-empty and within the length bound, as sent
ValidName(v) == v.type = "string" /\ Len(v.str) > 0 /\ Len(v.str) <= MaxNameLength

\* an integer quantity >= 0
ValidQuantity(v) == v.type = "number" /\ v.num >= 0

\* location and description are absent or strings
OptionalFieldsOk(b) ==
    /\ b.location.type \in {"undefined", "string"}
    /\ b.description.type \in {"undefined", "string"}

ValidBody(b) == ValidName(b.name) /\ ValidQuantity(b.quantity) /\ OptionalFieldsOk(b)

\* a string field as the chains store it: trimmed, then HTML-escaped
Sanitized(v) == Str(escape(trim(v.str)))

\* the storage call of the request did not fail
StorageUp == dbCall # "error"

HasError(path, msg) == \E i \in DOMAIN res.errors : res.errors[i] = [path |-> path, msg |-> msg]

StringFields == {"name", "location", "description"}

(***************************************************************************)
(* C1                                                                      *)
(***************************************************************************)
\* C1 as stated: a POST with a valid name and an integer quantity >= 0 is
\* answered 201 with a record whose name and quantity are the values sent,
\* whose id, createdAt and updatedAt are new, and which is in the store.
C1_CreateEchoesInput ==
    (/\ req.method = "POST"
     /\ ValidBody(req.body)
     /\ StorageUp)
    => /\ res.status = 201
       /\ Len(res.item) = 1
       /\ res.item[1].name = req.body.name
       /\ res.item[1].quantity = req.body.quantity
       /\ res.item[1].id \notin DOMAIN pre
       /\ res.item[1].createdAt = now
       /\ res.item[1].updatedAt = now
       /\ store = pre @@ (res.item[1].id :> res.item[1])

\* C1 amended: a POST whose name, trimmed and HTML-escaped, is non-empty and
\* at most 100 characters, with an integer quantity >= 0, is answered 201 with
\* a record whose name is the trimmed and escaped name and whose quantity is
\* the quantity sent; id, createdAt and updatedAt are new and the record is
\* in the store.
C1_CreateStoresSanitized ==
    (/\ req.method = "POST"
     /\ req.body.name.type = "string"
     /\ Sanitized(req.body.name).str # <<>>
     /\ Len(Sanitized(req.body.name).str) <= MaxNameLength
     /\ ValidQuantity(req.body.quantity)
     /\ OptionalFieldsOk(req.body)
     /\ StorageUp)
    => /\ res.status = 201
       /\ Len(res.item) = 1
       /\ res.item[1].name = Sanitized(req.body.name)
       /\ res.item[1].quantity = req.body.quantity
       /\ res.item[1].id \notin DOMAIN pre
       /\ res.item[1].id = nextId - 1
       /\ res.item[1].createdAt = now
       /\ res.item[1].updatedAt = now
       /\ store = pre @@ (res.item[1].id :> res.item[1])

\* C1 witness: the name " <b " was posted with quantity 0 and the record
\* "&lt;b" / 0 was created
C1_Witness ==
    /\ req.method = "POST"
    /\ req.body.name = Str(<<" ", "<", "b", " ">>)
    /\ res.status = 201
    /\ res.item[1].name = Str(<<"&", "l", "t", ";", "b">>)
    /\ res.item[1].quantity = Num(0)
    /\ res.item[1].id \in DOMAIN store

(***************************************************************************)
(* C2                                                                      *)
(***************************************************************************)
\* C2: a POST whose name is missing or empty is answered 400 with an error
\* entry for name saying "Name is required", and creates nothing.
C2_MissingNameRejected ==
    (/\ req.method = "POST"
     /\ req.body.name \in {Undefined, Str(<<>>)})
    => /\ res.status = 400
       /\ HasError("name", "Name is required")
       /\ store = pre

\* C2 witness: a POST with an empty name (not a missing one) was answered 400
C2_Witness ==
    /\ req.method = "POST"
    /\ req.body.name = Str(<<>>)
    /\ res.status = 400
    /\ HasError("name", "Name is required")

(***************************************************************************)
(* C3                                                                      *)
(***************************************************************************)
\* C3: a POST with quantity < 0 is answered 400 with the error "Quantity must
\* be a non-negative integer", whatever the name, and creates nothing.
C3_NegativeQuantityRejected ==
    (/\ req.method = "POST"
     /\ req.body.quantity.type = "number"
     /\ req.body.quantity.num < 0)
    => /\ res.status = 400
       /\ HasError("quantity", "Quantity must be a non-negative integer")
       /\ store = pre

\* C3 witness: a POST with a valid name and quantity -2 was answered 400
C3_Witness ==
    /\ req.method = "POST"
    /\ ValidName(req.body.name)
    /\ req.body.quantity = Num(0 - 2)
    /\ res.status = 400
    /\ HasError("quantity", "Quantity must be a non-negative integer")

(***************************************************************************)
(* C4                                                                      *)
(***************************************************************************)
\* C4 as stated: a GET /items/{id} for the id of a stored record (the record
\* a POST has just created among them) is answered 200 with that record,
\* equal in every field.
C4_GetByIdReturnsRecord ==
    (/\ req.method = "GETID"
     /\ req.id \in DOMAIN store)
    => /\ res.status = 200
       /\ res.item = <<store[req.id]>>

C6_PartialPutUnknownIdNotFound ==
    (/\ req.method = "PUT"
     /\ ValidName(req.body.name)
     /\ req.body.quantity = Undefined
     /\ OptionalFieldsOk(req.body)
     /\ WellFormed(req.id)
     /\ req.id \notin DOMAIN pre
     /\ StorageUp)
    => res.status = 404

DeleteRemoves ==
    (/\ req.method = "DELETE"
     /\ req.id \in DOMAIN pre
     /\ StorageUp)
    => /\ res.status = 200
       /\ res.message = "Item deleted"
       /\ req.id \notin DOMAIN store

GoneIsNotFound ==
    /\ (req.method = "GETID" /\ req.id \notin DOMAIN store) => res.status = 404
    /\ (req.method = "GET" /\ res.status = 200)
        => \A i \in DOMAIN res.items : res.items[i].id \in DOMAIN store

\* an id that was assigned and is gone never comes back
GoneStaysGone ==
    \A id \in 1..(nextId - 1) : id \notin DOMAIN store => id \notin DOMAIN store'

C9_PutMergesBodyValues ==
    (/\ req.method = "PUT"
     /\ req.id \in DOMAIN pre
     /\ ValidBody(req.body)
     /\ StorageUp)
    => /\ res.status = 200
       /\ Len(res.item) = 1
       /\ \A f \in StringFields \cup {"quantity"} :
            res.item[1][f] = IF req.body[f] = Undefined THEN pre[req.id][f] ELSE req.body[f]

\* C9 amended: a valid PUT on an existing id is answered 200 with the updated
\* record, which is the stored one: quantity, when the body carries it, has
\* the body's value; name, location and description, when the body carries
\* them, have the body's value trimmed and HTML-escaped; a field the body
\* does not carry has the value it had.
C9_PutMergesSanitized ==
    (/\ req.method = "PUT"
     /\ req.id \in DOMAIN pre
     /\ ValidBody(req.body)
     /\ StorageUp)
    => /\ res.status = 200
       /\ res.item = <<store[req.id]>>
       /\ res.item[1].quantity = req.body.quantity
       /\ \A f \in StringFields :
            res.item[1][f] =
                IF req.body[f] = Undefined THEN pre[req.id][f] ELSE Sanitized(req.body[f])

\* C9 witness: a PUT without description on a record that had one was
\* answered 200, the name and quantity changed
C9_Witness ==
    /\ req.method = "PUT"
    /\ res.status = 200
    /\ req.body.description = Undefined
    /\ pre[req.id].description # Undefined
    /\ res.item[1].description = pre[req.id].description
    /\ res.item[1].name # pre[req.id].name
    /\ res.item[1].quantity # pre[req.id].quantity

(***************************************************************************)
(* C10                                                                     *)
(***************************************************************************)
\* C10 as stated: a PUT on an existing id whose body omits name and/or
\* quantity, the fields it carries being valid, is answered 200 with the
\* updated record.
C10_PartialPutAccepted ==
    (/\ req.method = "PUT"
     /\ req.id \in DOMAIN pre
     /\ req.body.name = Undefined \/ ValidName(req.body.name)
     /\ req.body.quantity = Undefined \/ ValidQuantity(req.body.quantity)
     /\ OptionalFieldsOk(req.body)
     /\ StorageUp)
    => /\ res.status = 200
       /\ res.item = <<store[req.id]>>

(***************************************************************************)
(* C11                                                                     *)
(***************************************************************************)
\* C11 as stated: every record in the store has a non-empty name of at most
\* 100 characters, after every sequence of POST, PUT and DELETE requests.
C11_StoredNameValid ==
    \A id \in DOMAIN store :
        /\ store[id].name.type = "string"
        /\ store[id].name.str # <<>>
        /\ Len(store[id].name.str) <= MaxNameLength

(***************************************************************************)
(* C12                                                                     *)
(***************************************************************************)
\* C12: every record in the store has a quantity that is an integer >= 0,
\* after every sequence of POST, PUT and DELETE requests.
C12_StoredQuantityValid ==
    \A id \in DOMAIN store :
        /\ store[id].quantity.type = "number"
        /\ store[id].quantity.num >= 0

\* C12 witness: a PUT with a negative quantity on a stored record was
\* refused and the record kept its quantity
C12_Witness ==
    /\ req.method = "PUT"
    /\ req.id \in DOMAIN store
    /\ req.body.quantity = Num(0 - 2)
    /\ res.status = 400
    /\ store[req.id].quantity = pre[req.id].quantity
    /\ store[req.id].quantity.num >= 0

(***************************************************************************)
(* C13                                                                     *)
(***************************************************************************)
\* C13 as stated: when the storage call of a request fails, the route
\* answers 500 with a message, whichever route it is.
C13_StorageFailureIs500 ==
    dbCall = "error" => (res.status = 500 /\ res.message # "")

(***************************************************************************)
(* C14                                                                     *)
(***************************************************************************)
\* C14: GET /items is answered 200 with exactly the records of the store,
\* each once and as stored, newest createdAt first, none left out.
C14_ListIsStoreNewestFirst ==
    (/\ req.method = "GET"
     /\ StorageUp)
    => /\ res.status = 200
       /\ store = pre
       /\ Len(res.items) = Cardinality(DOMAIN store)
       /\ \A id \in DOMAIN store : \E i \in DOMAIN res.items : res.items[i] = store[id]
       /\ \A i \in DOMAIN res.items :
            /\ res.items[i].id \in DOMAIN store
            /\ res.items[i] = store[res.items[i].id]
       /\ \A i, j \in DOMAIN res.items :
            i < j => res.items[i].createdAt >= res.items[j].createdAt

\* C14 witness: a list of two records created at different times, the newer
\* one first
C14_Witness ==
    /\ req.method = "GET"
    /\ res.status = 200
    /\ Len(res.items) = 2
    /\ res.items[1].createdAt > res.items[2].createdAt

(***************************************************************************)
(* C15                                                                     *)
(***************************************************************************)
\* C15 as stated: a successful POST whose body carries location (and
\* description) answers and stores a record with the supplied values (as
\* sent, or as the validator's trim and escape leave them).
C15_CreateKeepsOptionalFields ==
    (/\ req.method = "POST"
     /\ res.status = 201)
    => \A f \in {"location", "description"} :
          req.body[f].type = "string"
          => /\ res.item[1][f] \in {req.body[f], Sanitized(req.body[f])}
             /\ store[res.item[1].id][f] = res.item[1][f]

(***************************************************************************)
(* C16                                                                     *)
(***************************************************************************)
\* C16: updatedAt >= createdAt for every record of the store, whatever
\* creates and updates, with whatever bodies, led to it.
C16_UpdatedNotBeforeCreated ==
    \A id \in DOMAIN store : store[id].updatedAt >= store[id].createdAt

\* C16 witness: a PUT whose body carried an updatedAt before the record's
\* createdAt succeeded, and the record's updatedAt is after its createdAt
C16_Witness ==
    /\ req.method = "PUT"
    /\ res.status = 200
    /\ req.body.updatedAt # Undefined
    /\ req.body.updatedAt.num < store[req.id].createdAt
    /\ store[req.id].updatedAt > store[req.id].createdAt

(***************************************************************************)
(* C17                                                                     *)
(***************************************************************************)
\* C17 as stated: a record carries the sku it was written with; no two
\* stored records carry the same sku, records without sku aside; a create or
\* update whose sku another record has is rejected.
C17_SkuSparseUnique ==
    /\ \A i, j \in DOMAIN store :
          (i # j /\ store[i].sku # Undefined) => store[i].sku # store[j].sku
    /\ (/\ req.method \in {"POST", "PUT"}
        /\ res.status \in {200, 201}
        /\ req.body.sku # Undefined)
       => res.item[1].sku = req.body.sku
    /\ (/\ req.method \in {"POST", "PUT"}
        /\ req.body.sku # Undefined
        /\ \E id \in DOMAIN pre : id # req.id /\ pre[id].sku = req.body.sku)
       => (res.status \notin {200, 201} /\ store = pre)

(***************************************************************************)
(* C18                                                                     *)
(***************************************************************************)
\* C18: when POST or PUT is answered 400 the store is as it was before the
\* request: nothing created, no field changed.
C18_RejectedWriteChangesNothing ==
    (/\ req.method \in {"POST", "PUT"}
     /\ res.status = 400)
    => store = pre

\* C18 witness: a PUT on a stored record, whose name was valid and whose
\* quantity was not, was answered 400
C18_Witness ==
    /\ req.method = "PUT"
    /\ req.id \in DOMAIN pre
    /\ ValidName(req.body.name)
    /\ ~ValidQuantity(req.body.quantity)
    /\ Sanitized(req.body.name) # pre[req.id].name
    /\ res.status = 400
    /\ store = pre

(***************************************************************************)
(* C19                                                                     *)
(***************************************************************************)
\* C19: a successful PUT leaves the record's id and createdAt as they were
\* and sets updatedAt to a time not before its old value, also when the body
\* carries _id, createdAt or updatedAt.
C19_PutKeepsIdAndCreatedAt ==
    (/\ req.method = "PUT"
     /\ res.status = 200)
    => /\ DOMAIN store = DOMAIN pre
       /\ req.id \in DOMAIN pre
       /\ res.item[1].id = req.id
       /\ store[req.id].id = pre[req.id].id
       /\ store[req.id].createdAt = pre[req.id].createdAt
       /\ store[req.id].updatedAt >= pre[req.id].updatedAt
       /\ res.item[1] = store[req.id]

\* C19 witness: a PUT whose body carried _id and another createdAt
\* succeeded, after the clock had moved
C19_Witness ==
    /\ req.method = "PUT"
    /\ res.status = 200
    /\ req.body._id = Num(req.id)
    /\ req.body.createdAt # Undefined
    /\ req.body.createdAt.num # pre[req.id].createdAt
    /\ store[req.id].updatedAt > pre[req.id].updatedAt

(***************************************************************************)
(* C20                                                                     *)
(***************************************************************************)
\* C20 as stated: PUT (with a valid body) and DELETE are answered 404 for
\* every id that no stored record has, an id that is no well-formed
\* identifier included; never 400 or 500.
C20_UnknownIdAlways404 ==
    (/\ req.method \in {"PUT", "DELETE"}
     /\ req.method = "PUT" => ValidBody(req.body)
     /\ req.id \notin DOMAIN pre
     /\ StorageUp)
    => res.status = 404

(***************************************************************************)
(* C22                                                                     *)
(***************************************************************************)
\* C22 as stated: a POST or PUT (on a stored id) whose name and quantity are
\* valid is accepted whatever location and description contain, and a
\* location or description that is a string is stored as sent, with only its
\* surrounding whitespace removed.
C22_OptionalFieldsUnconstrained ==
    (/\ req.method \in {"POST", "PUT"}
     /\ ValidName(req.body.name)
     /\ ValidName(Sanitized(req.body.name))
     /\ ValidQuantity(req.body.quantity)
     /\ req.body._id = Undefined
     /\ req.method = "PUT" => req.id \in DOMAIN pre
     /\ StorageUp)
    => /\ res.status \in {200, 201}
       /\ \A f \in {"location", "description"} :
            req.body[f].type = "string"
            => /\ res.item[1][f] = Str(trim(req.body[f].str))
               /\ store[res.item[1].id][f] = res.item[1][f]

(***************************************************************************)
(* C25                                                                     *)
(***************************************************************************)
\* C25: PUT and DELETE change at most the record of their id and add none,
\* POST adds at most one record and changes none, GET changes nothing.
C25_FrameCondition ==
    /\ req.method \in {"PUT", "DELETE"}
       => /\ DOMAIN store \subseteq DOMAIN pre
          /\ \A id \in DOMAIN pre \ {req.id} : id \in DOMAIN store /\ store[id] = pre[id]
    /\ req.method = "POST"
       => /\ DOMAIN pre \subseteq DOMAIN store
          /\ Cardinality(DOMAIN store \ DOMAIN pre) <= 1
          /\ \A id \in DOMAIN pre : store[id] = pre[id]
    /\ req.method \in {"GET", "GETID"} => store = pre

\* C25 witness: a PUT changed its record while another record was stored,
\* and that one is as it was
C25_Witness ==
    /\ req.method = "PUT"
    /\ res.status = 200
    /\ store[req.id].name # pre[req.id].name
    /\ \E id \in DOMAIN pre : id # req.id /\ id \in DOMAIN store /\ store[id] = pre[id]

(***************************************************************************)
(* Vocabulary of the properties of requests handled at once.               *)
(***************************************************************************)
\* the storage call of slot k has run
Called(k) == flight[k].pc \in {"settled", "done"} /\ flight[k].at > 0

\* a PUT with a body the validation accepts, whose storage call did not fail
GoodPut(k) ==
    /\ flight[k].method = "PUT"
    /\ ValidBody(flight[k].body)
    /\ Called(k)
    /\ flight[k].dbCall = "ok"

\* document `after` is document `before` with every field of body b set, as
\* the chains leave it, and nothing else changed but updatedAt
WholeUpdate(before, after, b, t) ==
    /\ after.name = Sanitized(b.name)
    /\ after.quantity = b.quantity
    /\ \A f \in {"location", "description"} :
          after[f] = IF b[f] = Undefined THEN before[f] ELSE Sanitized(b[f])
    /\ after.id = before.id
    /\ after.createdAt = before.createdAt
    /\ after.updatedAt = t

(***************************************************************************)
(* C21                                                                     *)
(***************************************************************************)
\* C21: of two PUTs on the same stored id that are handled at once and whose
\* storage calls run one right after the other, both are answered 200, each
\* is applied whole, the later on the result of the earlier, and the record
\* is the result of the later one as long as no other call follows.
C21_LastWriteWins ==
    \A p, q \in Slots :
        (/\ GoodPut(p)
         /\ GoodPut(q)
         /\ flight[p].id = flight[q].id
         /\ flight[q].at = flight[p].at + 1
         /\ flight[p].existed
         /\ flight[q].existed)
        => /\ flight[p].res.status = 200
           /\ flight[q].res.status = 200
           /\ WholeUpdate(flight[p].seen[1], flight[p].wrote[1], flight[p].body, flight[p].t)
           /\ flight[q].seen = flight[p].wrote
           /\ WholeUpdate(flight[q].seen[1], flight[q].wrote[1], flight[q].body, flight[q].t)
           /\ flight[p].res.item = flight[p].wrote
           /\ flight[q].res.item = flight[q].wrote
           /\ LastCall = flight[q].at => store[flight[q].id] = flight[q].wrote[1]

\* C21 witness: two PUTs with different bodies on the same record, both
\* waiting to answer; the one in the second slot ran first
C21_Witness ==
    /\ GoodPut(1)
    /\ GoodPut(2)
    /\ flight[1].pc = "settled"
    /\ flight[2].pc = "settled"
    /\ flight[1].id = flight[2].id
    /\ flight[1].existed
    /\ flight[2].existed
    /\ flight[1].body # flight[2].body
    /\ flight[1].at = flight[2].at + 1
    /\ flight[1].res.status = 200
    /\ store[flight[1].id].name = Sanitized(flight[1].body.name)

(***************************************************************************)
(* C23                                                                     *)
(***************************************************************************)
\* a request has at most one response, none before its handling is over and
\* one when it is; a request the validation answered never reached the
\* handler or the store
OneResponse ==
    \A k \in Slots :
        /\ flight[k].responses <= 1
        /\ flight[k].pc = "done" <=> flight[k].responses = 1
        /\ (flight[k].method \in Validated /\ flight[k].pc \in {"awaiting", "settled", "done"}
                /\ validateItem(flight[k].body).errors # <<>>)
           => /\ flight[k].pc = "done"
              /\ flight[k].res.status = 400
              /\ ~flight[k].handlerRan
              /\ flight[k].at = 0
              /\ flight[k].dbCall = "none"

\* C23: every request to GET, POST, PUT or DELETE eventually has exactly one
\* response, never two; when the validation answers 400 neither the handler
\* nor its storage call runs.
C23_ExactlyOneResponse ==
    /\ []OneResponse
    /\ \A k \in Slots :
          (flight[k].pc # "idle") ~> (flight[k].pc = "done" /\ flight[k].responses = 1)

\* C23 witness: a request refused by the validation and a request the
\* handler answered, both answered once
C23_Witness ==
    /\ flight[1].pc = "done"
    /\ flight[1].res = ValidationFailed(validateItem(flight[1].body).errors)
    /\ flight[1].res.errors # <<>>
    /\ ~flight[1].handlerRan
    /\ flight[1].responses = 1
    /\ flight[2].pc = "done"
    /\ flight[2].handlerRan
    /\ flight[2].dbCall = "ok"
    /\ flight[2].responses = 1

(***************************************************************************)
(* C24                                                                     *)
(***************************************************************************)
\* C24: of a PUT and a DELETE on the same stored id that are handled at
\* once, once both storage calls have run the record is absent; the PUT is
\* answered 200 when its call ran before the delete and 404 otherwise.
C24_PutNeverRecreates ==
    \A p, q \in Slots :
        (/\ GoodPut(p)
         /\ flight[q].method = "DELETE"
         /\ Called(q)
         /\ flight[q].res.status = 200
         /\ flight[p].id = flight[q].id
         /\ flight[p].existed
         /\ flight[q].existed)
        => /\ flight[p].id \notin DOMAIN store
           /\ flight[p].at < flight[q].at
              => (flight[p].res.status = 200 /\ flight[p].res.item = flight[p].wrote)
           /\ flight[p].at > flight[q].at
              => (flight[p].res.status = 404 /\ flight[p].wrote = <<>>)

\* C24 witness: the PUT entered its handler while the record was stored, the
\* delete ran first, and the PUT is about to answer 404
C24_Witness ==
    /\ GoodPut(1)
    /\ flight[1].pc = "settled"
    /\ flight[2].method = "DELETE"
    /\ flight[2].pc = "settled"
    /\ flight[2].res.status = 200
    /\ flight[2].id = flight[1].id
    /\ flight[1].existed
    /\ flight[2].existed
    /\ flight[1].at = flight[2].at + 1
    /\ flight[1].res.status = 404

(***************************************************************************)
(* Vocabulary of the properties of the web client.                         *)
(***************************************************************************)
\* call i is a PUT of the edit form
IsPut(i) == i \in DOMAIN wire /\ wire[i].kind = "PUT"

\* the last GET /items the page has issued (0: none)
LastFetch ==
    CHOOSE n \in 0..MaxCalls :
        /\ n = 0 \/ (n \in DOMAIN wire /\ wire[n].kind = "GET")
        /\ \A i \in DOMAIN wire : wire[i].kind = "GET" => i <= n

\* no call is in flight
AllDone == \A i \in DOMAIN wire : wire[i].state = "done"

(***************************************************************************)
(* C26                                                                     *)
(***************************************************************************)
\* C26 as stated: the edit form opened on a stored item, as the store has
\* it, and saved with no field changed leaves the item's name, quantity,
\* location and description as they were.
C26_EditSaveRoundTrip ==
    \A i \in DOMAIN wire :
        (/\ wire[i].kind = "PUT"
         /\ wire[i].res.status = 200
         /\ wire[i].item = wire[i].before
         /\ wire[i].body = TrimForm(FormOf(wire[i].item[1])))
        => \A f \in {"name", "quantity", "location", "description"} :
              wire[i].after[1][f] = wire[i].before[1][f]

(***************************************************************************)
(* C27                                                                     *)
(***************************************************************************)
\* C27 as stated: once no call is in flight the list the page shows is the
\* response to the GET /items it issued last.
C27_ListIsLatestFetch ==
    (/\ AllDone
     /\ LastFetch > 0
     /\ wire[LastFetch].res.status = 200)
    => page.items = wire[LastFetch].res.items

(***************************************************************************)
(* C28                                                                     *)
(***************************************************************************)
\* C28: in every state of the home page the confirmation dialog is shown
\* exactly when an item to delete is selected.
C28_DialogIffSelected ==
    page.showDeleteConfirm <=> page.itemToDelete # <<>>

\* C28 witness: a DELETE is in flight, the user has cancelled and opened the
\* confirmation of another item
C28_Witness ==
    \E i \in DOMAIN wire :
        /\ wire[i].kind = "DELETE"
        /\ wire[i].state \in {"sent", "served"}
        /\ page.showDeleteConfirm
        /\ page.itemToDelete # <<>>
        /\ page.itemToDelete[1].id # wire[i].id

(***************************************************************************)
(* C29                                                                     *)
(***************************************************************************)
\* a call of updateItem that is over has reset loading, has emitted
\* 'updated' then 'close' when the PUT succeeded and nothing when it failed,
\* and then has left the form as it was; one that is not over has emitted
\* nothing
UpdateEnds ==
    /\ page.loading
       => \E i \in DOMAIN wire :
             wire[i].kind = "PUT" /\ wire[i].mounted /\ wire[i].state # "done"
    /\ \A i \in DOMAIN wire :
        wire[i].kind = "PUT"
        => /\ wire[i].state # "done" => (wire[i].loading /\ wire[i].emitted = <<>>)
           /\ (wire[i].state # "done" /\ wire[i].mounted)
              => (page.loading /\ page.showEditModal)
           /\ wire[i].state = "done"
              => /\ ~wire[i].loading
                 /\ wire[i].res.status = 200 <=> wire[i].emitted = <<"updated", "close">>
                 /\ wire[i].res.status # 200
                    => (wire[i].emitted = <<>> /\ wire[i].open[2] = wire[i].open[1])

\* C29: every call of updateItem ends with loading reset to false; the form
\* emits 'updated' and then 'close' exactly when the PUT succeeded; when the PUT
\* fails it emits nothing and stays open.
C29_UpdateItemEnds ==
    /\ []UpdateEnds
    /\ \A i \in 1..MaxFormCalls :
          IsPut(i) ~> (IsPut(i) /\ wire[i].state = "done" /\ ~wire[i].loading)

\* C29 witness: one save failed and left the form open, a second one
\* succeeded and closed it
C29_Witness ==
    \E i, j \in DOMAIN wire :
        /\ wire[i].kind = "PUT"
        /\ wire[i].state = "done"
        /\ wire[i].res.status # 200
        /\ wire[i].emitted = <<>>
        /\ wire[i].open = <<TRUE, TRUE>>
        /\ wire[j].kind = "PUT"
        /\ wire[j].state = "done"
        /\ wire[j].res.status = 200
        /\ wire[j].emitted = <<"updated", "close">>
        /\ wire[j].open = <<TRUE, FALSE>>
        /\ ~page.showEditModal
        /\ ~page.loading

====
